---- MODULE Spec2Model ----
(***************************************************************************)
(* Model of the retrieval-augmented chat core:                             *)
(*   app/services/chat_service.py    ChatService                           *)
(*   app/services/milvus_service.py  MilvusService                         *)
(*   app/services/openai_service.py  OpenAIService                         *)
(*                                                                         *)
(* Conventions.                                                            *)
(*  - A Python str is a sequence of tokens (TLA+ strings); "" is <<>>,     *)
(*    concatenation is \o.  Document ids and conversation ids are opaque   *)
(*    TLA+ strings ("" is the empty id, "None" is Python's None).          *)
(*  - A similarity score is an integer number of thousandths.  Division    *)
(*    is exact: avg_score is a reduced fraction [num, den].  Floating      *)
(*    point rounding is not modelled.                                      *)
(*  - A Python dict is a TLA+ record / function; dict.get(k, d) is Get.    *)
(*  - The three external services (embedding provider, completion          *)
(*    provider, Milvus) are the environment: every call to them either     *)
(*    returns or raises, as chosen by the env record of the action.        *)
(***************************************************************************)
EXTENDS Integers, Sequences, FiniteSets, TLC

\* ------------------------------------------------------------------ bounds

\* Most rows the collection holds in the model.
MaxStore == 3
\* Most documents in one ingest_documents batch.
MaxBatch == 2

\* ------------------------------------------------------- program constants

\* chat_service.py:25  SIMILARITY_THRESHOLD = 0.3 (in thousandths)
SIMILARITY_THRESHOLD == 300
\* chat_service.py:22  search_similar(query_embedding, limit=3)
SearchLimit == 3
\* chat_service.py:96  "similarity_threshold": 0.3 of the except branch
FallbackThreshold == 300

\* chat_service.py:86
APOLOGY == <<"I apologize, but I encountered an error processing your request. Please try again.">>
\* openai_service.py:54
NO_RESPONSE == <<"No response generated">>

\* ------------------------------------------------------------ input domains

Messages == {<<"q1">>, <<"q2">>}
ConversationIds == {"None", "c1"}
\* Scores the store reports, in thousandths (cosine similarity).
Scores == {299, 300, 500}
\* Text the completion provider produces; <<>> is "no content".
ProviderContents == {<<>>, <<"answer">>}

\* str(e) of the exception raised by each external call.
ErrText(point) == <<point \o " failed">>

\* ---------------------------------------------------------------- helpers

\* dict.get(key, default)
Get(d, key, default) == IF key \in DOMAIN d THEN d[key] ELSE default

RECURSIVE SumSeq(_)
SumSeq(s) == IF s = <<>> THEN 0 ELSE Head(s) + SumSeq(Tail(s))

RECURSIVE MaxSeq(_)
MaxSeq(s) ==
    IF Len(s) = 1 THEN s[1]
    ELSE LET m == MaxSeq(Tail(s)) IN IF s[1] >= m THEN s[1] ELSE m

RECURSIVE Gcd(_, _)
Gcd(a, b) == IF b = 0 THEN a ELSE Gcd(b, a % b)

Abs(x) == IF x < 0 THEN -x ELSE x

\* The exact quotient n / d (d > 0) as a reduced fraction.
Div(n, d) ==
    LET g == Gcd(Abs(n), d)
    IN  [num |-> n \div g, den |-> d \div g]

\* The number literal 0 as a fraction.
Zero == [num |-> 0, den |-> 1]

Digit(n) == CASE n = 0 -> "0" [] n = 1 -> "1" [] n = 2 -> "2" [] n = 3 -> "3"
              [] n = 4 -> "4" [] n = 5 -> "5" [] n = 6 -> "6" [] n = 7 -> "7"
              [] n = 8 -> "8" [] n = 9 -> "9"

\* str() of a float given in thousandths, 0 <= x < 10000: shortest repr,
\* at least one fractional digit ("0.3", "0.35", "1.0").
FormatFloat(x) ==
    LET ip == x \div 1000
        f1 == (x \div 100) % 10
        f2 == (x \div 10) % 10
        f3 == x % 10
    IN  Digit(ip) \o "." \o Digit(f1)
          \o (IF f2 # 0 \/ f3 # 0 THEN Digit(f2) ELSE "")
          \o (IF f3 # 0 THEN Digit(f3) ELSE "")

\* sep.join(parts) for a sequence of strings
RECURSIVE Join(_, _)
Join(parts, sep) ==
    IF parts = <<>> THEN <<>>
    ELSE IF Len(parts) = 1 THEN parts[1]
    ELSE parts[1] \o sep \o Join(Tail(parts), sep)

\* [f(x) for x in s]
MapSeq(s, F(_)) == [i \in 1..Len(s) |-> F(s[i])]

\* All sequences over S of length at most n.
SeqsUpTo(S, n) == UNION {[1..k -> S] : k \in 0..n}

\* ------------------------------------------------------------- documents

\* Document contents the callers use; <<>> is the empty string.
ContentX == <<"X">>
ContentY == <<"Y">>

\* A metadata value: a dict (sequence of <<key, value>> items), a str or None.
MetaDict(items) == [kind |-> "dict", val |-> items]
MetaStr(tokens) == [kind |-> "str", val |-> tokens]

\* Documents handed to ingest_documents: {id, content, metadata}.
DocA == [id |-> "a", content |-> ContentX, metadata |-> MetaDict(<<<<"source", "docs">>>>)]
DocNoId == [id |-> "", content |-> ContentY, metadata |-> MetaDict(<<<<"source", "web">>>>)]
DocEmpty == [id |-> "b", content |-> <<>>, metadata |-> MetaDict(<<<<"source", "docs">>>>)]
InputDocs == {DocA, DocNoId, DocEmpty}
Batches == SeqsUpTo(InputDocs, MaxBatch) \ {<<>>}

\* A document the caller has filled in by hand: no content, but an
\* embedding and a metadata string of its own.
DocByHand == [id |-> "e", content |-> <<>>, embedding |-> <<"vec", "by hand">>,
              metadata |-> [kind |-> "str", val |-> <<"{}">>]]
HandDocs == {DocA, DocByHand}
HandBatches == SeqsUpTo(HandDocs, MaxBatch) \ {<<>>}

\* The metadata values a caller may supply besides a non-empty dict: the
\* empty dict, None, and no "metadata" key at all.
MetaNone == [kind |-> "none", val |-> <<>>]
DocEmptyMeta == [id |-> "f", content |-> ContentY, metadata |-> MetaDict(<<>>)]
DocNoneMeta == [id |-> "g", content |-> ContentY, metadata |-> MetaNone]
DocNoMeta == [id |-> "h", content |-> ContentY]
MetaDocs == {DocA, DocEmptyMeta, DocNoneMeta, DocNoMeta}
MetaBatches == SeqsUpTo(MetaDocs, MaxBatch) \ {<<>>}

\* Python truthiness of a str / of a metadata value.
Truthy(s) == s # <<>>
MetaTruthy(m) == m.kind # "none" /\ m.val # <<>>

\* json.dumps of a dict of strings: {"k": "v", ...}
JsonItem(item) == <<"\"" \o item[1] \o "\": \"" \o item[2] \o "\"">>
json_dumps(m) ==
    IF m.kind = "dict"
    THEN MetaStr(<<"{">> \o Join(MapSeq(m.val, JsonItem), <<", ">>) \o <<"}">>)
    ELSE MetaStr(<<"\"">> \o m.val \o <<"\"">>)

\* ---------------------------------------------------- external call records

\* One call to an external service: what was called, with what, and whether
\* it raised or what it returned.
Call(op, arg, raised, value) == [op |-> op, arg |-> arg, raised |-> raised, value |-> value]

\* The outcome of a method: it returned value or raised err; calls are the
\* external calls it made, in order.
Returned(value, calls) == [raised |-> FALSE, err |-> <<>>, value |-> value, calls |-> calls]
Raised(point, calls) == [raised |-> TRUE, err |-> ErrText(point), value |-> <<>>, calls |-> calls]

\* The environment of one operation: the external calls that fail in it.
Fails(env, point) == point \in env.faults

\* The vector the embedding model returns for a text.
Embedding(text) == <<"vec">> \o text

\* ------------------------------------------------------------ OpenAIService

\* Mutant of get_embedding: a failed embeddings.create call is tried once
\* more before the exception is re-raised.
get_embedding_retry(text, fails) ==
    IF fails
    THEN Raised("embedding", <<Call("embed", text, TRUE, <<>>), Call("embed", text, TRUE, <<>>)>>)
    ELSE Returned(Embedding(text), <<Call("embed", text, FALSE, Embedding(text))>>)

\* openai_service.py:19-31: one embeddings.create call; an exception is
\* logged and re-raised.
get_embedding(text, fails) ==
    IF fails
    THEN Raised("embedding", <<Call("embed", text, TRUE, <<>>)>>)
    ELSE Returned(Embedding(text), <<Call("embed", text, FALSE, Embedding(text))>>)

SystemPrompt == <<"You are a helpful assistant. Use the following context to answer the user's question: ">>

\* Mutant of get_chat_completion: the provider's exception is swallowed and
\* the placeholder returned.
get_chat_completion_swallowed(messages, context, env) ==
    LET call == [op |-> "complete", arg |-> context, prompt |-> messages,
                 raised |-> Fails(env, "completion"),
                 yielded |-> IF Fails(env, "completion") THEN <<>> ELSE env.content,
                 value |-> IF Fails(env, "completion") THEN <<>> ELSE env.content]
    IN  Returned(IF ~Fails(env, "completion") /\ Truthy(env.content)
                 THEN env.content ELSE NO_RESPONSE, <<call>>)

\* Mutant of get_chat_completion: the provider's content is returned as it
\* is, also when there is none.
get_chat_completion_raw(messages, context, env) ==
    LET prompt == IF Truthy(context)
                  THEN <<[role |-> "system", content |-> SystemPrompt \o context]>> \o messages
                  ELSE messages
    IN  IF Fails(env, "completion")
        THEN Raised("completion",
                    <<[op |-> "complete", arg |-> context, prompt |-> prompt,
                       raised |-> TRUE, yielded |-> <<>>, value |-> <<>>]>>)
        ELSE Returned(env.content,
                      <<[op |-> "complete", arg |-> context, prompt |-> prompt,
                         raised |-> FALSE, yielded |-> env.content, value |-> env.content]>>)

\* openai_service.py:33-57: the context, when non-empty, becomes a leading
\* system message; empty content is replaced by the placeholder.  In the
\* record of the call, yielded is response.choices[0].message.content (<<>>
\* for None and for "") and value what the method returned.
get_chat_completion(messages, context, env) ==
    LET prompt == IF Truthy(context)
                  THEN <<[role |-> "system", content |-> SystemPrompt \o context]>> \o messages
                  ELSE messages
        content == env.content
        text == IF Truthy(content) THEN content ELSE NO_RESPONSE
    IN  IF Fails(env, "completion")
        THEN Raised("completion",
                    <<[op |-> "complete", arg |-> context, prompt |-> prompt,
                       raised |-> TRUE, yielded |-> <<>>, value |-> <<>>]>>)
        ELSE Returned(text,
                      <<[op |-> "complete", arg |-> context, prompt |-> prompt,
                         raised |-> FALSE, yielded |-> content, value |-> text]>>)

\* ------------------------------------------------------------ MilvusService

\* The fields of the collection schema (milvus_service.py:45-50).
SchemaFields == {"id", "content", "embedding", "metadata"}

\* A row pymilvus accepts for that schema: every field present, the VARCHAR
\* metadata field a string.
RowMatchesSchema(doc) ==
    /\ SchemaFields \subseteq DOMAIN doc
    /\ doc.metadata.kind = "str"

\* The stored row of an inserted document.
RowOf(doc) == [f \in SchemaFields |-> doc[f]]

\* Insert hit h into the ranking r, kept in descending score order; ties
\* keep the order of arrival.
RECURSIVE InsertDesc(_, _)
InsertDesc(r, h) ==
    IF r = <<>> THEN <<h>>
    ELSE IF h.score > r[1].score THEN <<h>> \o r
    ELSE <<r[1]>> \o InsertDesc(Tail(r), h)

RECURSIVE RankFrom(_, _, _)
RankFrom(rows, sim, i) ==
    IF i = 0 THEN <<>>
    ELSE InsertDesc(RankFrom(rows, sim, i - 1),
                    [id |-> rows[i].id, content |-> rows[i].content,
                     metadata |-> rows[i].metadata, score |-> sim[rows[i].content]])

Take(s, n) == SubSeq(s, 1, IF Len(s) < n THEN Len(s) ELSE n)

\* collection.search(limit=limit): the limit most similar rows, best first;
\* sim gives the cosine similarity of the query vector to each stored text.
MilvusSearch(rows, sim, limit) == Take(RankFrom(rows, sim, Len(rows)), limit)

\* Mutant of search_similar: the release sits at the end of the try block,
\* not in a finally, so a search that raised skips it.
search_similar_unreleased(query_embedding, limit, conn, exists, rows, env) ==
    LET hits == MilvusSearch(rows, env.sim, limit)
        hc == <<Call("has_collection", <<>>, Fails(env, "has_collection"), exists)>>
        ld == hc \o <<Call("load", <<>>, Fails(env, "load"), <<>>)>>
        sr == ld \o <<Call("search", query_embedding, Fails(env, "search"),
                           IF Fails(env, "search") THEN <<>> ELSE hits)>>
        rl == sr \o <<Call("release", <<>>, Fails(env, "release"), <<>>)>>
    IN  IF ~conn THEN Returned(<<>>, <<>>)
        ELSE IF Fails(env, "has_collection") THEN Raised("has_collection", hc)
        ELSE IF ~exists THEN Returned(<<>>, hc)
        ELSE IF Fails(env, "load") THEN Raised("load", ld)
        ELSE IF Fails(env, "search") THEN Returned(<<>>, sr)
        ELSE IF Fails(env, "release") THEN Returned(<<>>, rl)
        ELSE Returned(MapSeq(hits,
                             LAMBDA hit: [id |-> hit.id, content |-> hit.content,
                                          metadata |-> hit.metadata, score |-> hit.score]),
                      rl)

\* Mutant of search_similar: the search is attempted without looking at the
\* connected flag.
search_similar_unguarded(query_embedding, limit, conn, exists, rows, env) ==
    LET hits == MilvusSearch(rows, env.sim, limit)
        hc == <<Call("has_collection", <<>>, FALSE, exists)>>
        rl == hc \o <<Call("load", <<>>, FALSE, <<>>),
                      Call("search", query_embedding, FALSE, hits),
                      Call("release", <<>>, FALSE, <<>>)>>
    IN  IF ~exists THEN Returned(<<>>, hc)
        ELSE Returned(MapSeq(hits,
                             LAMBDA hit: [id |-> hit.id, content |-> hit.content,
                                          metadata |-> hit.metadata, score |-> hit.score]),
                      rl)

\* milvus_service.py:86-128
search_similar(query_embedding, limit, conn, exists, rows, env) ==
    LET hits == MilvusSearch(rows, env.sim, limit)
        hc == <<Call("has_collection", <<>>, Fails(env, "has_collection"), exists)>>
        ld == hc \o <<Call("load", <<>>, Fails(env, "load"), <<>>)>>
        sr == ld \o <<Call("search", query_embedding, Fails(env, "search"),
                           IF Fails(env, "search") THEN <<>> ELSE hits)>>
        rl == sr \o <<Call("release", <<>>, Fails(env, "release"), <<>>)>>
        documents == MapSeq(hits,
                            LAMBDA hit: [id |-> hit.id, content |-> hit.content,
                                         metadata |-> hit.metadata, score |-> hit.score])
    IN  IF ~conn THEN Returned(<<>>, <<>>)
        ELSE IF Fails(env, "has_collection") THEN Raised("has_collection", hc)
        ELSE IF ~exists THEN Returned(<<>>, hc)
        ELSE IF Fails(env, "load") THEN Raised("load", ld)
        ELSE IF Fails(env, "release") THEN Raised("release", rl)
        ELSE IF Fails(env, "search") THEN Returned(<<>>, rl)
        ELSE Returned(documents, rl)

\* Mutant of create_collection: the existence check does not return early,
\* the collection is created again.
create_collection_again(conn, exists, env) ==
    LET hc == <<Call("has_collection", <<>>, Fails(env, "has_collection"), exists)>>
        cr == hc \o <<Call("create", SchemaFields, Fails(env, "create"), <<>>)>>
        ix == cr \o <<Call("create_index", <<"embedding">>, Fails(env, "create_index"), <<>>)>>
    IN  IF ~conn THEN Returned(exists, <<>>)
        ELSE IF Fails(env, "has_collection") THEN [Raised("has_collection", hc) EXCEPT !.value = exists]
        ELSE IF Fails(env, "create") THEN [Raised("create", cr) EXCEPT !.value = exists]
        ELSE IF Fails(env, "create_index") THEN [Raised("create_index", ix) EXCEPT !.value = TRUE]
        ELSE Returned(TRUE, ix)

\* milvus_service.py:35-62.  value is whether the collection exists afterwards.
create_collection(conn, exists, env) ==
    LET hc == <<Call("has_collection", <<>>, Fails(env, "has_collection"), exists)>>
        cr == hc \o <<Call("create", SchemaFields, Fails(env, "create"), <<>>)>>
        ix == cr \o <<Call("create_index", <<"embedding">>, Fails(env, "create_index"), <<>>)>>
    IN  IF ~conn THEN Returned(exists, <<>>)
        ELSE IF Fails(env, "has_collection") THEN [Raised("has_collection", hc) EXCEPT !.value = exists]
        ELSE IF exists THEN Returned(TRUE, hc)
        ELSE IF Fails(env, "create") THEN [Raised("create", cr) EXCEPT !.value = FALSE]
        ELSE IF Fails(env, "create_index") THEN [Raised("create_index", ix) EXCEPT !.value = TRUE]
        ELSE Returned(TRUE, ix)

\* Mutant of insert_documents: a missing collection is an error, it is not
\* created.
insert_documents_nocreate(documents, conn, exists, rows, env) ==
    LET hc == <<Call("has_collection", <<>>, Fails(env, "has_collection"), exists)>>
        rejected == Fails(env, "insert") \/ \E i \in 1..Len(documents) : ~RowMatchesSchema(documents[i])
        ins == hc \o <<Call("load", <<>>, Fails(env, "load"), <<>>),
                       Call("insert", documents, rejected, <<>>)>>
        fl == ins \o <<Call("flush", <<>>, FALSE, <<>>),
                       Call("release", <<>>, FALSE, <<>>)>>
        state(e, r) == [exists |-> e, rows |-> r]
    IN  IF ~conn THEN Returned(state(exists, rows), <<>>)
        ELSE IF ~exists \/ env.faults # {} \/ rejected
        THEN [Raised("insert", hc) EXCEPT !.value = state(exists, rows)]
        ELSE Returned(state(TRUE, rows \o MapSeq(documents, RowOf)), fl)

\* milvus_service.py:64-84.  value is [exists, rows]: the collection afterwards.
insert_documents(documents, conn, exists, rows, env) ==
    LET hc == <<Call("has_collection", <<>>, Fails(env, "has_collection"), exists)>>
        cc == IF exists THEN Returned(TRUE, <<>>) ELSE create_collection(conn, exists, env)
        rejected == Fails(env, "insert") \/ \E i \in 1..Len(documents) : ~RowMatchesSchema(documents[i])
        ld == hc \o cc.calls \o <<Call("load", <<>>, Fails(env, "load"), <<>>)>>
        ins == ld \o <<Call("insert", documents, rejected, <<>>)>>
        fl == ins \o <<Call("flush", <<>>, Fails(env, "flush"), <<>>)>>
        rel == <<Call("release", <<>>, Fails(env, "release"), <<>>)>>
        written == rows \o MapSeq(documents, RowOf)
        state(e, r) == [exists |-> e, rows |-> r]
    IN  IF ~conn THEN Returned(state(exists, rows), <<>>)
        ELSE IF Fails(env, "has_collection")
        THEN [Raised("has_collection", hc) EXCEPT !.value = state(exists, rows)]
        ELSE IF cc.raised
        THEN [cc EXCEPT !.calls = hc \o @, !.value = state(cc.value, rows)]
        ELSE IF Fails(env, "load")
        THEN [Raised("load", ld) EXCEPT !.value = state(TRUE, rows)]
        ELSE IF rejected
        THEN [Raised(IF Fails(env, "release") THEN "release" ELSE "insert", ins \o rel)
                EXCEPT !.value = state(TRUE, rows)]
        ELSE IF Fails(env, "flush")
        THEN [Raised(IF Fails(env, "release") THEN "release" ELSE "flush", fl \o rel)
                EXCEPT !.value = state(TRUE, written)]
        ELSE IF Fails(env, "release")
        THEN [Raised("release", fl \o rel) EXCEPT !.value = state(TRUE, written)]
        ELSE Returned(state(TRUE, written), fl \o rel)

\* -------------------------------------------------------------- ChatService

\* Mutant of filter_docs: every hit is kept, whatever its score.
filter_docs_lenient(similar_docs) ==
    similar_docs

\* Mutant of filter_docs: a score equal to the threshold is filtered out.
filter_docs_strict(similar_docs) ==
    SelectSeq(similar_docs, LAMBDA doc: Get(doc, "score", 0) > SIMILARITY_THRESHOLD)

\* chat_service.py:24-32: the hits whose score reaches the threshold, in the
\* order the store returned them.
filter_docs(similar_docs) ==
    SelectSeq(similar_docs, LAMBDA doc: Get(doc, "score", 0) >= SIMILARITY_THRESHOLD)

\* Mutant of build_context: the contents are joined without leaving out the
\* empty ones.
build_context_unskipped(documents) ==
    IF documents = <<>> THEN <<>>
    ELSE Join(MapSeq(documents, LAMBDA doc: Get(doc, "content", <<>>)), <<"\n\n">>)

\* chat_service.py:100-111
build_context(documents) ==
    IF documents = <<>> THEN <<>>
    ELSE Join(SelectSeq(MapSeq(documents, LAMBDA doc: Get(doc, "content", <<>>)), Truthy),
              <<"\n\n">>)

\* Mutant of extract_sources: the append sits after the loop, so only the
\* last filtered document is listed.
extract_sources_last(filtered_docs) ==
    IF filtered_docs = <<>> THEN <<>>
    ELSE SelectSeq(<<Get(filtered_docs[Len(filtered_docs)], "id", "")>>,
                   LAMBDA doc_id: doc_id # "")

\* Mutant of extract_sources: a hit without id is listed under a substitute
\* name.
extract_sources_substituted(filtered_docs) ==
    MapSeq(filtered_docs,
           LAMBDA doc: IF Get(doc, "id", "") # "" THEN doc.id ELSE "unknown")

\* chat_service.py:65-68
extract_sources(filtered_docs) ==
    SelectSeq(MapSeq(filtered_docs, LAMBDA doc: Get(doc, "id", "")), LAMBDA doc_id: doc_id # "")

\* Mutant of found_metadata: the scores are taken over all the raw hits.
found_metadata_unfiltered(similar_docs, filtered_docs) ==
    LET scores == MapSeq(similar_docs, LAMBDA doc: Get(doc, "score", 0))
    IN  [documents_found |-> Len(filtered_docs),
         total_documents_searched |-> Len(similar_docs),
         highest_score |-> IF filtered_docs # <<>> THEN MaxSeq(scores) ELSE 0,
         avg_score |-> IF filtered_docs # <<>>
                       THEN Div(SumSeq(scores), Len(similar_docs)) ELSE Zero,
         search_successful |-> TRUE,
         similarity_threshold |-> SIMILARITY_THRESHOLD]

\* chat_service.py:56-63
found_metadata(similar_docs, filtered_docs) ==
    LET scores == MapSeq(filtered_docs, LAMBDA doc: Get(doc, "score", 0))
    IN  [documents_found |-> Len(filtered_docs),
         total_documents_searched |-> Len(similar_docs),
         highest_score |-> IF filtered_docs # <<>> THEN MaxSeq(scores) ELSE 0,
         avg_score |-> IF filtered_docs # <<>>
                       THEN Div(SumSeq(scores), Len(filtered_docs)) ELSE Zero,
         search_successful |-> TRUE,
         similarity_threshold |-> SIMILARITY_THRESHOLD]

\* Mutant of build_search_metadata: the empty case is not flagged.
build_search_metadata_unflagged(similar_docs, filtered_docs) ==
    [search_successful |-> TRUE,
     documents_found |-> Len(filtered_docs),
     total_documents_searched |-> Len(similar_docs),
     highest_score |-> 0,
     avg_score |-> Zero,
     similarity_threshold |-> SIMILARITY_THRESHOLD]

\* chat_service.py:70-74: with no filtered document the search is reported
\* unsuccessful, with the reason.
build_search_metadata(similar_docs, filtered_docs) ==
    LET found == found_metadata(similar_docs, filtered_docs)
    IN  IF filtered_docs = <<>>
        THEN [k \in DOMAIN found \cup {"reason"} |->
                CASE k = "search_successful" -> FALSE
                  [] k = "reason" -> <<"No documents met similarity threshold (",
                                       FormatFloat(SIMILARITY_THRESHOLD), ")">>
                  [] OTHER -> found[k]]
        ELSE found

\* Mutant of error_result: the reason does not carry the exception's text.
error_result_generic(e, conversation_id) ==
    [response |-> APOLOGY,
     conversation_id |-> conversation_id,
     sources |-> <<>>,
     search_metadata |->
        [search_successful |-> FALSE,
         reason |-> <<"Error">>,
         documents_found |-> 0,
         total_documents_searched |-> 0,
         highest_score |-> 0,
         avg_score |-> Zero,
         similarity_threshold |-> FallbackThreshold]]

\* Mutant of error_result: the except branch does not echo the
\* conversation id.
error_result_noecho(e, conversation_id) ==
    [response |-> APOLOGY,
     conversation_id |-> "None",
     sources |-> <<>>,
     search_metadata |->
        [search_successful |-> FALSE,
         reason |-> <<"Error: ">> \o e,
         documents_found |-> 0,
         total_documents_searched |-> 0,
         highest_score |-> 0,
         avg_score |-> Zero,
         similarity_threshold |-> FallbackThreshold]]

\* chat_service.py:83-98: the result of the except branch for exception e.
error_result(e, conversation_id) ==
    [response |-> APOLOGY,
     conversation_id |-> conversation_id,
     sources |-> <<>>,
     search_metadata |->
        [search_successful |-> FALSE,
         reason |-> <<"Error: ">> \o e,
         documents_found |-> 0,
         total_documents_searched |-> 0,
         highest_score |-> 0,
         avg_score |-> Zero,
         similarity_threshold |-> FallbackThreshold]]

\* Mutant of except_Exception: the handler logs and re-raises, as the
\* handlers of the two services do.
except_reraise(e, conversation_id, made, assigned) ==
    [raised |-> TRUE, value |-> error_result(e, conversation_id),
     calls |-> made, locals |-> assigned]

\* chat_service.py:83-85: the except clause catches the exception e of the
\* try block; the call returns the error result.
except_Exception(e, conversation_id, made, assigned) ==
    [raised |-> FALSE, value |-> error_result(e, conversation_id),
     calls |-> made, locals |-> assigned]

\* The local variables of a process_message call that were not assigned.
NoLocals == [similar_docs |-> <<>>, filtered_docs |-> <<>>, context |-> <<>>]

\* chat_service.py:15-98.  locals are the values of similar_docs,
\* filtered_docs and context when the call ended.
process_message(message, conversation_id, conn, exists, rows, env) ==
    LET emb == get_embedding(message, Fails(env, "embedding"))
        srch == search_similar(emb.value, SearchLimit, conn, exists, rows, env)
        similar_docs == srch.value
        filtered_docs == filter_docs(similar_docs)
        context == build_context(filtered_docs)
        messages == <<[role |-> "user", content |-> message]>>
        compl == get_chat_completion(messages, context, env)
        assigned == [similar_docs |-> similar_docs, filtered_docs |-> filtered_docs,
                     context |-> context]
    IN  IF emb.raised THEN except_Exception(emb.err, conversation_id, emb.calls, NoLocals)
        ELSE IF srch.raised
        THEN except_Exception(srch.err, conversation_id, emb.calls \o srch.calls, NoLocals)
        ELSE IF compl.raised
        THEN except_Exception(compl.err, conversation_id,
                              emb.calls \o srch.calls \o compl.calls, assigned)
        ELSE [raised |-> FALSE,
              value |-> [response |-> compl.value,
                         conversation_id |-> conversation_id,
                         sources |-> extract_sources(filtered_docs),
                         search_metadata |-> build_search_metadata(similar_docs, filtered_docs)],
              calls |-> emb.calls \o srch.calls \o compl.calls,
              locals |-> assigned]

\* chat_service.py:117-124: the loop from document i on.  value is the
\* caller's list as the loop left it.
RECURSIVE embed_documents(_, _, _)
embed_documents(documents, i, env) ==
    IF i > Len(documents) THEN Returned(documents, <<>>)
    ELSE LET doc == documents[i]
             content == Get(doc, "content", <<>>)
             emb == get_embedding(content, env.embedFailAt = i)
             embedded == [k \in DOMAIN doc \cup {"embedding"} |->
                            IF k = "embedding" THEN emb.value ELSE doc[k]]
             serialized == IF "metadata" \in DOMAIN embedded /\ MetaTruthy(embedded.metadata)
                           THEN [embedded EXCEPT !.metadata = json_dumps(@)]
                           ELSE embedded
             rest == embed_documents([documents EXCEPT ![i] = serialized], i + 1, env)
         IN  IF ~Truthy(content) THEN embed_documents(documents, i + 1, env)
             ELSE IF emb.raised THEN [emb EXCEPT !.value = documents]
             ELSE [rest EXCEPT !.calls = emb.calls \o @]

\* Mutant of ingest_documents: an embedding failure does not abort; what
\* the loop left is still inserted.
ingest_documents_besteffort(documents, conn, exists, rows, env) ==
    LET loop == embed_documents(documents, 1, env)
        ins == insert_documents(loop.value, conn, exists, rows, env)
    IN  [raised |-> FALSE, value |-> ~loop.raised /\ ~ins.raised,
         calls |-> loop.calls \o ins.calls,
         documents |-> loop.value, store |-> ins.value]

\* chat_service.py:113-132.  value is the bool returned; documents the
\* caller's list afterwards; store the collection afterwards.
ingest_documents(documents, conn, exists, rows, env) ==
    LET loop == embed_documents(documents, 1, env)
        ins == insert_documents(loop.value, conn, exists, rows, env)
    IN  IF loop.raised
        THEN [raised |-> FALSE, value |-> FALSE, calls |-> loop.calls,
              documents |-> loop.value, store |-> [exists |-> exists, rows |-> rows]]
        ELSE [raised |-> FALSE, value |-> ~ins.raised, calls |-> loop.calls \o ins.calls,
              documents |-> loop.value, store |-> ins.value]

\* main.py:15-33: the startup hook; it swallows every exception.
lifespan(conn, exists, env) ==
    LET ic == <<Call("has_connection", <<>>, Fails(env, "has_connection"), env.alive)>>
        cc == create_collection(conn, exists, env)
    IN  IF ~conn THEN Returned(exists, <<>>)
        ELSE IF Fails(env, "has_connection") \/ ~env.alive THEN Returned(exists, ic)
        ELSE Returned(cc.value, ic \o cc.calls)

\* ------------------------------------------------------------------- state

VARIABLES
    connected,   \* MilvusService._connected
    hasColl,     \* the collection exists in Milvus
    rows,        \* the rows of the collection, in insertion order
    lastOp,      \* the operation that ran last
    raised,      \* whether it raised to its caller
    result,      \* what process_message returned
    locals,      \* similar_docs, filtered_docs and context of that call
    success,     \* what ingest_documents returned
    batch,       \* the list ingest_documents was called with
    documents,   \* that list after the call
    calls,       \* the external calls of the last operation
    ingested,    \* the ids of the documents ingest_documents reported ingested
    loaded,      \* the collection is loaded in Milvus (a state of the server)
    pc,          \* where each concurrently running call stands
    req          \* the arguments and local variables of each running call

vars == <<connected, hasColl, rows, lastOp, raised, result, locals, success,
          batch, documents, calls, ingested, loaded, pc, req>>

\* The calls that run in parallel: two chat requests and the ingest script.
Searchers == {"s1", "s2"}
Ingesters == {"i1"}
Procs == Searchers \cup Ingesters

\* An environment in which no external call fails.
NoFaults(sim) == [faults |-> {}, sim |-> sim, content |-> <<"answer">>, embedFailAt |-> 0]
\* The similarities the concurrent requests are run with.
ConcSims ==
    {[t \in {ContentX, ContentY} |-> IF t = ContentX THEN 500 ELSE 300],
     [t \in {ContentX, ContentY} |-> IF t = ContentX THEN 299 ELSE 500]}

\* The variables of a call that has not started.
NoReq == [message |-> <<>>, sim |-> <<>>, batch |-> <<>>,
          seen |-> <<>>, wasLoaded |-> FALSE, result |-> <<>>]

NoResult == error_result(<<>>, "None")

\* After the module-level MilvusService() ran _connect (milvus_service.py:
\* 10-33), which either connected or did not.
Init ==
    /\ connected \in BOOLEAN
    /\ hasColl \in BOOLEAN
    /\ rows = <<>>
    /\ lastOp = "none"
    /\ raised = FALSE
    /\ result = NoResult
    /\ locals = NoLocals
    /\ success = FALSE
    /\ batch = <<>>
    /\ documents = <<>>
    /\ calls = <<>>
    /\ ingested = {}
    /\ loaded = FALSE
    /\ pc = [p \in Procs |-> "idle"]
    /\ req = [p \in Procs |-> NoReq]

\* ------------------------------------------------------------- environments

\* The texts stored in the collection.
StoredTexts(rs) == {rs[i].content : i \in 1..Len(rs)}

\* The sets of external calls that fail together in one operation; a fault
\* of a call the operation never reaches changes nothing, so only the sets
\* that can all be reached are listed, and an operation draws only from the
\* calls the state of the store lets it reach.
IngestFaults ==
    {{}, {"has_collection"}, {"create"}, {"create_index"}, {"load"}, {"insert"},
     {"flush"}, {"release"}, {"insert", "release"}, {"flush", "release"}}
LifespanFaults ==
    {{}, {"has_connection"}, {"has_collection"}, {"create"}, {"create_index"}}

\* sim: the cosine similarity of the query to each stored text; content:
\* what the completion provider generates.  Both are fixed where the call
\* that reads them is not made.
Sims(rs) == [StoredTexts(rs) -> Scores]
DefaultSim(rs) == [t \in StoredTexts(rs) |-> SIMILARITY_THRESHOLD]
DefaultContent == <<"answer">>
StoreCalls == {"has_collection", "load", "search", "release"}
SearchReaches(conn, exists) ==
    IF ~conn THEN {} ELSE IF ~exists THEN {"has_collection"} ELSE StoreCalls
AllProcessEnvs(rs) ==
    {[faults |-> f, sim |-> DefaultSim(rs), content |-> DefaultContent] :
        f \in {{"embedding"}, {"has_collection"}, {"load"}, {"release"},
               {"search", "release"}, {"search", "completion"}}}
      \cup {[faults |-> {"search"}, sim |-> DefaultSim(rs), content |-> c] :
              c \in ProviderContents}
      \cup {[faults |-> {"completion"}, sim |-> s, content |-> DefaultContent] :
              s \in Sims(rs)}
      \cup {[faults |-> {}, sim |-> s, content |-> c] :
              s \in Sims(rs), c \in ProviderContents}
ProcessEnvs(conn, exists, rs) ==
    {env \in AllProcessEnvs(rs) :
        env.faults \cap StoreCalls \subseteq SearchReaches(conn, exists)}

\* embedFailAt: the document whose embedding call raises (0: none).
InsertReaches(conn, exists) ==
    IF ~conn THEN {}
    ELSE IF exists THEN {"has_collection", "load", "insert", "flush", "release"}
    ELSE {"has_collection", "create", "create_index", "load", "insert",
          "flush", "release"}
IngestEnvs(docs, conn, exists) ==
    {[faults |-> f, embedFailAt |-> 0] :
        f \in {g \in IngestFaults : g \subseteq InsertReaches(conn, exists)}}
      \cup {[faults |-> {}, embedFailAt |-> k] : k \in 1..Len(docs)}

\* alive: what connections.has_connection("default") answers.
LifespanEnvs ==
    {[faults |-> f, alive |-> a] : f \in LifespanFaults, a \in BOOLEAN}

\* ----------------------------------------------------------------- actions

ProcessMessage ==
    \E message \in Messages, conversation_id \in ConversationIds, env \in ProcessEnvs(connected, hasColl, rows) :
        \E r \in {process_message(message, conversation_id, connected, hasColl, rows, env)} :
            /\ lastOp' = "process_message"
            /\ raised' = r.raised
            /\ result' = r.value
            /\ locals' = r.locals
            /\ calls' = r.calls
            /\ success' = FALSE
            /\ batch' = <<>>
            /\ documents' = <<>>
            /\ UNCHANGED <<connected, hasColl, rows, ingested, loaded, pc, req>>

\* batches: the lists ingest_documents is called with; record: whether the
\* ids of the batches it returned True for are kept in ingested.
IngestFrom(batches, record) ==
    \E docs \in batches :
        /\ Len(rows) + Len(docs) <= MaxStore
        /\ \E env \in IngestEnvs(docs, connected, hasColl) :
            \E r \in {ingest_documents(docs, connected, hasColl, rows, env)} :
                /\ lastOp' = "ingest_documents"
                /\ raised' = r.raised
                /\ success' = r.value
                /\ batch' = docs
                /\ documents' = r.documents
                /\ calls' = r.calls
                /\ hasColl' = r.store.exists
                /\ rows' = r.store.rows
                /\ result' = NoResult
                /\ locals' = NoLocals
                /\ ingested' = IF record /\ r.value
                                THEN ingested \cup {docs[i].id : i \in 1..Len(docs)}
                                ELSE ingested
                /\ UNCHANGED <<connected, loaded, pc, req>>

IngestStep(record) == IngestFrom(Batches, record)

IngestDocuments == IngestStep(FALSE)

IngestDocumentsRecorded == IngestStep(TRUE)

Lifespan ==
    \E env \in LifespanEnvs :
        \E r \in {lifespan(connected, hasColl, env)} :
            /\ lastOp' = "lifespan"
            /\ raised' = r.raised
            /\ hasColl' = r.value
            /\ calls' = r.calls
            /\ result' = NoResult
            /\ locals' = NoLocals
            /\ success' = FALSE
            /\ batch' = <<>>
            /\ documents' = <<>>
            /\ UNCHANGED <<connected, rows, ingested, loaded, pc, req>>

Next == ProcessMessage \/ IngestDocuments \/ Lifespan

Spec == Init /\ [][Next]_vars

\* The same program with the history of successful ingests recorded.
HistNext == ProcessMessage \/ IngestDocumentsRecorded \/ Lifespan

HistSpec == Init /\ [][HistNext]_vars

\* The program with callers that hand in documents they filled in by hand.
IngestByHand == IngestFrom(HandBatches, FALSE)

HandNext == ProcessMessage \/ IngestByHand

HandSpec == Init /\ [][HandNext]_vars

\* The rows a collection holds after a successful ingest into rs.
StoresFrom(rs) ==
    {ingest_documents(docs, TRUE, TRUE, rs, NoFaults(<<>>)).store.rows :
        docs \in {b \in Batches : Len(rs) + Len(b) <= MaxStore}}
\* The collections one or two ingests leave behind.
PairStores ==
    LET one == StoresFrom(<<>>)
    IN  {<<>>} \cup one \cup UNION {StoresFrom(rs) : rs \in one}

\* A server started on a collection that earlier runs of the ingest script
\* have filled.
PairInit ==
    /\ connected \in BOOLEAN
    /\ hasColl \in BOOLEAN
    /\ rows \in IF connected /\ hasColl THEN PairStores ELSE {<<>>}
    /\ lastOp = "none"
    /\ raised = FALSE
    /\ result = NoResult
    /\ locals = NoLocals
    /\ success = FALSE
    /\ batch = <<>>
    /\ documents = <<>>
    /\ calls = <<>>
    /\ ingested = {}
    /\ loaded = FALSE
    /\ pc = [p \in Procs |-> "idle"]
    /\ req = [p \in Procs |-> NoReq]

\* A chat request made twice: the same message against the same store and
\* the same behaviour of the external services, under two different
\* conversation ids.  The first call is recorded as by ProcessMessage, the
\* second in req["s1"], with the two ids given.
ProcessPair ==
    \E message \in Messages, conversation_id \in ConversationIds,
       env \in ProcessEnvs(connected, hasColl, rows) :
        \E other \in ConversationIds \ {conversation_id} :
            \E r \in {process_message(message, conversation_id, connected, hasColl, rows, env)},
               t \in {process_message(message, other, connected, hasColl, rows, env)} :
                /\ lastOp' = "process_message"
                /\ raised' = r.raised
                /\ result' = r.value
                /\ locals' = r.locals
                /\ calls' = r.calls
                /\ success' = FALSE
                /\ batch' = <<>>
                /\ documents' = <<>>
                /\ req' = [req EXCEPT !["s1"] =
                             [first |-> conversation_id, second |-> other,
                              raised |-> t.raised, result |-> t.value, calls |-> t.calls]]
                /\ UNCHANGED <<connected, hasColl, rows, ingested, loaded, pc>>

PairSpec == PairInit /\ [][ProcessPair]_vars

\* The program with callers that supply every kind of metadata and that call
\* ingest_documents a second time with the list they called it with before
\* (the same list object, as the first call left it).
IngestMeta == IngestFrom(MetaBatches, FALSE)

IngestAgain ==
    /\ lastOp = "ingest_documents"
    /\ batch \in MetaBatches
    /\ IngestFrom({documents}, FALSE)

RetryNext == IngestMeta \/ IngestAgain

RetrySpec == Init /\ [][RetryNext]_vars

\* A server whose connect failed at construction, in front of a collection
\* that earlier runs may have created and filled.
DownInit ==
    /\ connected = FALSE
    /\ hasColl \in BOOLEAN
    /\ rows \in IF hasColl THEN PairStores ELSE {<<>>}
    /\ lastOp = "none"
    /\ raised = FALSE
    /\ result = NoResult
    /\ locals = NoLocals
    /\ success = FALSE
    /\ batch = <<>>
    /\ documents = <<>>
    /\ calls = <<>>
    /\ ingested = {}
    /\ loaded = FALSE
    /\ pc = [p \in Procs |-> "idle"]
    /\ req = [p \in Procs |-> NoReq]

DownSpec == DownInit /\ [][Next]_vars

\* ------------------------------------------------- calls running in parallel

\* Chat requests and the ingest script run as separate calls against the one
\* Milvus collection; each step below is one call to Milvus (or the part of
\* a method between two such calls), and steps of different calls interleave.
\* Whether the collection is loaded is a state of the Milvus server, shared
\* by all its clients: load() loads it, release() unloads it, and a search
\* of a collection that is not loaded raises.

\* The variables of the sequential operations, which these steps leave alone.
seqVars == <<lastOp, raised, result, locals, success, batch, documents, calls, ingested>>

\* The store is connected and holds the collection with one document.
ConcInit ==
    /\ connected = TRUE
    /\ hasColl = TRUE
    /\ rows = ingest_documents(<<DocA>>, TRUE, TRUE, <<>>, NoFaults(<<>>)).store.rows
    /\ lastOp = "none"
    /\ raised = FALSE
    /\ result = NoResult
    /\ locals = NoLocals
    /\ success = FALSE
    /\ batch = <<>>
    /\ documents = <<>>
    /\ calls = <<>>
    /\ ingested = {}
    /\ loaded = FALSE
    /\ pc = [p \in Procs |-> "idle"]
    /\ req = [p \in Procs |-> NoReq]

\* chat_service.py:17-22, milvus_service.py:88-93: the query is embedded,
\* search_similar finds the store connected and the collection present.
SearchBegin(p) ==
    /\ pc[p] \in {"idle", "done"}
    /\ connected /\ hasColl
    /\ \E message \in Messages, sim \in ConcSims :
         req' = [req EXCEPT ![p] = [NoReq EXCEPT !.message = message, !.sim = sim]]
    /\ pc' = [pc EXCEPT ![p] = "load"]
    /\ UNCHANGED <<connected, hasColl, rows, loaded>>
    /\ UNCHANGED seqVars

\* milvus_service.py:95-96: Collection(...).load()
SearchLoad(p) ==
    /\ pc[p] = "load"
    /\ p \in Searchers
    /\ loaded' = TRUE
    /\ pc' = [pc EXCEPT ![p] = "search"]
    /\ UNCHANGED <<connected, hasColl, rows, req>>
    /\ UNCHANGED seqVars

\* milvus_service.py:104-126: collection.search; seen are the rows it ran
\* over, wasLoaded whether the collection was loaded when it ran.
SearchQuery(p) ==
    /\ pc[p] = "search"
    /\ req' = [req EXCEPT ![p].seen = rows, ![p].wasLoaded = loaded]
    /\ pc' = [pc EXCEPT ![p] = "release"]
    /\ UNCHANGED <<connected, hasColl, rows, loaded>>
    /\ UNCHANGED seqVars

\* milvus_service.py:127-128: finally: collection.release()
SearchRelease(p) ==
    /\ pc[p] = "release"
    /\ p \in Searchers
    /\ loaded' = FALSE
    /\ pc' = [pc EXCEPT ![p] = "complete"]
    /\ UNCHANGED <<connected, hasColl, rows, req>>
    /\ UNCHANGED seqVars

\* The environment of a chat request whose search ran with the collection
\* loaded or not: the search of a collection that is not loaded raises.
SearchEnv(r) ==
    [NoFaults(r.sim) EXCEPT !.faults = IF r.wasLoaded THEN {} ELSE {"search"}]

\* chat_service.py:24-81: the rest of process_message, from the hits to the
\* returned result.
SearchFinish(p) ==
    /\ pc[p] = "complete"
    /\ req' = [req EXCEPT ![p].result =
                 process_message(req[p].message, "c1", connected, hasColl,
                                 req[p].seen, SearchEnv(req[p])).value]
    /\ pc' = [pc EXCEPT ![p] = "done"]
    /\ UNCHANGED <<connected, hasColl, rows, loaded>>
    /\ UNCHANGED seqVars

\* chat_service.py:115-127, milvus_service.py:66-71: ingest_documents has
\* embedded the batch and insert_documents found the collection present.
InsertBegin(p) ==
    /\ pc[p] \in {"idle", "done"}
    /\ connected /\ hasColl
    /\ \E docs \in Batches :
         /\ Len(rows) + Len(docs) <= MaxStore
         /\ req' = [req EXCEPT ![p] = [NoReq EXCEPT !.batch = docs]]
    /\ pc' = [pc EXCEPT ![p] = "load"]
    /\ UNCHANGED <<connected, hasColl, rows, loaded>>
    /\ UNCHANGED seqVars

\* milvus_service.py:73-74: Collection(...).load()
InsertLoad(p) ==
    /\ pc[p] = "load"
    /\ p \in Ingesters
    /\ loaded' = TRUE
    /\ pc' = [pc EXCEPT ![p] = "insert"]
    /\ UNCHANGED <<connected, hasColl, rows, req>>
    /\ UNCHANGED seqVars

\* milvus_service.py:76-82: collection.insert and collection.flush
InsertWrite(p) ==
    /\ pc[p] = "insert"
    /\ Len(rows) + Len(req[p].batch) <= MaxStore
    /\ rows' = ingest_documents(req[p].batch, connected, hasColl, rows,
                                NoFaults(<<>>)).store.rows
    /\ pc' = [pc EXCEPT ![p] = "release"]
    /\ UNCHANGED <<connected, hasColl, loaded, req>>
    /\ UNCHANGED seqVars

\* milvus_service.py:83-84: finally: collection.release()
InsertRelease(p) ==
    /\ pc[p] = "release"
    /\ p \in Ingesters
    /\ loaded' = FALSE
    /\ pc' = [pc EXCEPT ![p] = "done"]
    /\ UNCHANGED <<connected, hasColl, rows, req>>
    /\ UNCHANGED seqVars

ConcNext ==
    \/ \E p \in Searchers : SearchBegin(p)
    \/ \E p \in Searchers : SearchLoad(p)
    \/ \E p \in Searchers : SearchQuery(p)
    \/ \E p \in Searchers : SearchRelease(p)
    \/ \E p \in Searchers : SearchFinish(p)
    \/ \E p \in Ingesters : InsertBegin(p)
    \/ \E p \in Ingesters : InsertLoad(p)
    \/ \E p \in Ingesters : InsertWrite(p)
    \/ \E p \in Ingesters : InsertRelease(p)

ConcSpec == ConcInit /\ [][ConcNext]_vars

\* ------------------------------------------------- vocabulary of the claims

\* The calls of the last operation to one external operation.
CallsTo(op) == SelectSeq(calls, LAMBDA c: c.op = op)
\* Some call of the last operation to op raised.
CallRaised(op) == \E i \in 1..Len(calls) : calls[i].op = op /\ calls[i].raised
\* The last operation called op and the call returned.
CallReturned(op) == \E i \in 1..Len(calls) : calls[i].op = op /\ ~calls[i].raised

\* The string sub occurs in the string s.
Occurs(sub, s) ==
    \E k \in 0..(Len(s) - Len(sub)) : SubSeq(s, k + 1, k + Len(sub)) = sub

Answered == lastOp = "process_message"
\* search_similar returned to process_message (possibly with no hits).
StoreReturned ==
    /\ Answered
    /\ CallReturned("embed")
    /\ ~CallRaised("has_collection") /\ ~CallRaised("load") /\ ~CallRaised("release")
\* The call went through to the end of the try block.
Succeeded == Answered /\ CallReturned("complete")

ResultFields == {"response", "conversation_id", "sources", "search_metadata"}

\* The positions of the raw hits that reach the threshold.
KeptPositions(docs) == {i \in 1..Len(docs) : docs[i].score >= SIMILARITY_THRESHOLD}
\* The k-th smallest member of a set of positions.
NthOf(P, k) == CHOOSE i \in P : Cardinality({j \in P : j < i}) = k - 1

\* C1: process_message never raises: whatever the embedding call, the search
\* and the completion call do, it returns a record with response,
\* conversation_id, sources and search_metadata.
C1_NeverRaises ==
    Answered => /\ ~raised
                /\ DOMAIN result = ResultFields
C1_Witness ==
    /\ Answered
    /\ CallRaised("search")
    /\ CallRaised("complete")
    /\ ~raised

\* C2: the filtered documents are exactly the raw hits with score >= 0.3, in
\* the store's order; a hit below the threshold has neither its id in
\* sources nor its content in the context.
C2_FilterExact ==
    Answered =>
        LET raw == locals.similar_docs
            kept == locals.filtered_docs
            P == KeptPositions(raw)
        IN  /\ Len(kept) = Cardinality(P)
            /\ \A k \in 1..Len(kept) : kept[k] = raw[NthOf(P, k)]
            /\ \A i \in (1..Len(raw)) \ P :
                 /\ \A j \in 1..Len(result.sources) : result.sources[j] # raw[i].id
                 /\ ~Occurs(raw[i].content, locals.context)
                 /\ \A c \in 1..Len(calls) :
                      calls[c].op = "complete" => ~Occurs(raw[i].content, calls[c].arg)
C2_Witness ==
    /\ Succeeded
    /\ Len(locals.similar_docs) = 3
    /\ Len(locals.filtered_docs) = 2
    /\ locals.similar_docs[3].score < SIMILARITY_THRESHOLD
    /\ locals.filtered_docs[2].score = SIMILARITY_THRESHOLD
    /\ result.sources # <<>>

\* C3: with no hit, or none reaching the threshold, and the embedding and
\* completion calls succeeding, the completion provider is called exactly
\* once, with the empty context; its text is the answer; sources is empty,
\* search_successful is false and the reason mentions 0.3.
C3_UngroundedAnswer ==
    (StoreReturned /\ locals.filtered_docs = <<>> /\ ~CallRaised("complete")) =>
        /\ Len(CallsTo("complete")) = 1
        /\ CallsTo("complete")[1].arg = <<>>
        /\ result.response = CallsTo("complete")[1].value
        /\ result.sources = <<>>
        /\ result.search_metadata.search_successful = FALSE
        /\ "reason" \in DOMAIN result.search_metadata
        /\ \E i \in 1..Len(result.search_metadata.reason) :
             result.search_metadata.reason[i] = "0.3"
C3_Witness ==
    /\ StoreReturned
    /\ Len(locals.similar_docs) = 2
    /\ locals.filtered_docs = <<>>
    /\ CallReturned("complete")
    /\ result.response = <<"answer">>

\* C4: on a successful answer documents_found is the number of filtered
\* hits, total_documents_searched the number of raw hits, highest_score the
\* greatest and avg_score the mean of the filtered scores; both are 0 when
\* nothing passed the filter.
C4_Metadata ==
    Succeeded =>
        LET md == result.search_metadata
            raw == locals.similar_docs
            P == KeptPositions(raw)
            total == SumSeq([k \in 1..Cardinality(P) |-> raw[NthOf(P, k)].score])
        IN  /\ md.documents_found = Cardinality(P)
            /\ md.total_documents_searched = Len(raw)
            /\ P = {} => md.highest_score = 0 /\ md.avg_score = Zero
            /\ P # {} =>
                 /\ \A i \in P : raw[i].score <= md.highest_score
                 /\ \E i \in P : raw[i].score = md.highest_score
                 /\ md.avg_score.den > 0
                 /\ md.avg_score.num * Cardinality(P) = total * md.avg_score.den
\* Scores 0.5, 0.5, 0.299: two documents found of three, highest and mean 0.5.
C4_Witness ==
    /\ Succeeded
    /\ MapSeq(locals.similar_docs, LAMBDA d: d.score) = <<500, 500, 299>>
    /\ result.search_metadata.documents_found = 2
    /\ result.search_metadata.total_documents_searched = 3
    /\ result.search_metadata.highest_score = 500
    /\ result.search_metadata.avg_score = [num |-> 500, den |-> 1]

\* C5: when the embedding of the query raises, the answer is the apology,
\* sources is empty, search_successful is false, the reason contains the
\* error text, and neither the store nor the completion provider is called.
C5_EmbeddingFailure ==
    (Answered /\ CallRaised("embed")) =>
        /\ result.response = APOLOGY
        /\ result.sources = <<>>
        /\ result.search_metadata.search_successful = FALSE
        /\ Occurs(ErrText("embedding"), result.search_metadata.reason)
        /\ Len(calls) = 1
        /\ calls[1].op = "embed"
C5_Witness ==
    /\ Answered
    /\ CallRaised("embed")
    /\ rows # <<>>
    /\ connected /\ hasColl

\* C6: when the completion call raises, the result is the soft failure of an
\* embedding failure: apology, search_successful false, error text in the
\* reason; also when hits had passed the threshold, sources is empty and
\* documents_found and total_documents_searched are 0.
C6_CompletionFailure ==
    (Answered /\ CallRaised("complete")) =>
        /\ result.response = APOLOGY
        /\ result.sources = <<>>
        /\ result.search_metadata.search_successful = FALSE
        /\ Occurs(ErrText("completion"), result.search_metadata.reason)
        /\ result.search_metadata.documents_found = 0
        /\ result.search_metadata.total_documents_searched = 0
        /\ [result EXCEPT !.search_metadata.reason = <<>>]
             = [error_result(ErrText("embedding"), result.conversation_id)
                  EXCEPT !.search_metadata.reason = <<>>]
C6_Witness ==
    /\ Answered
    /\ CallRaised("complete")
    /\ Len(locals.filtered_docs) >= 2
    /\ result.sources = <<>>

\* The store had a problem during the search of the last process_message.
StoreProblem ==
    \/ ~connected
    \/ ~hasColl
    \/ CallRaised("has_collection")
    \/ CallRaised("load")
    \/ CallRaised("search")

\* C7: every problem of the store during the search (not connected, no
\* collection, a failing existence check, load or search call) counts as no
\* hits: the completion provider is still called, with the empty context,
\* and its text, not the apology, is the answer.
C7_StoreProblemsAreSoft ==
    (Answered /\ CallReturned("embed") /\ StoreProblem /\ ~CallRaised("release")) =>
        /\ locals.similar_docs = <<>>
        /\ Len(CallsTo("complete")) = 1
        /\ CallsTo("complete")[1].arg = <<>>
        /\ ~CallsTo("complete")[1].raised =>
             /\ result.response = CallsTo("complete")[1].value
             /\ result.response # APOLOGY

\* The last operation was ingest_documents.
Ingested == lastOp = "ingest_documents"

\* C8: ingest_documents returns True only if the whole batch was written to
\* the store; when the store did not take the batch (insert raised, store
\* not connected) or an embedding call failed, it returns False.
C8_SuccessMeansWritten ==
    Ingested =>
        /\ success =>
             /\ CallReturned("insert")
             /\ Len(rows) >= Len(batch)
             /\ SubSeq(rows, Len(rows) - Len(batch) + 1, Len(rows)) = MapSeq(documents, RowOf)
        /\ (CallRaised("insert") \/ ~connected \/ CallRaised("embed")) => ~success

\* The non-empty contents of a list of documents, in list order.
ContentsToEmbed(docs) ==
    SelectSeq(MapSeq(docs, LAMBDA doc: Get(doc, "content", <<>>)), Truthy)
IsPrefix(p, s) == Len(p) <= Len(s) /\ SubSeq(s, 1, Len(p)) = p

\* C9: ingest_documents embeds the documents one at a time in list order;
\* when an embedding call fails no later document is embedded, insert is not
\* called, the store is as it was and the call reports failure.
C9_EmbedFailureAborts ==
    [][Ingested' =>
         LET embeds == MapSeq(CallsTo("embed")', LAMBDA c: c.arg)
         IN  /\ IsPrefix(embeds, ContentsToEmbed(batch'))
             /\ ~CallRaised("embed")' => embeds = ContentsToEmbed(batch')
             /\ CallRaised("embed")' =>
                  /\ calls'[Len(calls')].op = "embed" /\ calls'[Len(calls')].raised
                  /\ \A i \in 1..(Len(calls') - 1) : calls'[i].op = "embed" /\ ~calls'[i].raised
                  /\ ~success'
                  /\ rows' = rows
                  /\ hasColl' = hasColl]_vars
\* The second of two documents failed to embed: one call returned, one raised.
C9_Witness ==
    /\ Ingested
    /\ Len(batch) = 2
    /\ Len(calls) = 2
    /\ ~calls[1].raised
    /\ calls[2].op = "embed" /\ calls[2].raised
    /\ connected

\* The store ranked document d among the hits of the search, with a score
\* reaching the threshold.
Ranked(d) ==
    \E c \in 1..Len(calls) :
        /\ calls[c].op = "search" /\ ~calls[c].raised
        /\ \E i \in 1..Len(calls[c].value) :
             /\ i <= SearchLimit
             /\ calls[c].value[i].id = d
             /\ calls[c].value[i].score >= SIMILARITY_THRESHOLD
InSources(d) == \E j \in 1..Len(result.sources) : result.sources[j] = d

\* C10 as claimed: once ingest_documents has returned True for a batch with
\* document d, a process_message whose search ranks d in the top 3 with
\* score >= 0.3 has d in its sources.
C10_RoundTrip ==
    Answered => \A d \in ingested : Ranked(d) => InSources(d)
\* C10 as amended: ... has d in its sources, if d is not the empty id and
\* the call went through without any of its external calls raising.
C10_RoundTripOnSuccess ==
    Succeeded => \A d \in ingested : (d # "" /\ Ranked(d)) => InSources(d)
C10_Witness ==
    /\ Succeeded
    /\ "a" \in ingested
    /\ Ranked("a")
    /\ InSources("a")
    /\ Len(locals.filtered_docs) >= 2

\* C11: calls running in parallel do not interfere: whatever the
\* interleaving of the steps of chat requests and of the ingest script,
\* every process_message returns what it returns when run alone against the
\* rows its search ran over.
C11_NoInterference ==
    \A p \in Searchers :
        pc[p] = "done" =>
            req[p].result = process_message(req[p].message, "c1", connected, hasColl,
                                            req[p].seen, NoFaults(req[p].sim)).value

\* The last operation was the startup hook and it called create_collection,
\* whose existence check returned.
Created ==
    /\ lastOp = "lifespan"
    /\ CallReturned("has_collection")

\* C12: create_collection is idempotent.  Called on a connected store whose
\* collection exists, it makes no call after the existence check (so it
\* raises nothing and neither creates the collection again nor touches
\* schema or index) and the collection is still there; called when the
\* collection is missing, it creates it once, with the schema, and indexes
\* it once; whenever its Milvus calls return, the collection exists.
C12_CreateIdempotent ==
    [][Created' =>
         /\ hasColl =>
              /\ hasColl'
              /\ CallsTo("create")' = <<>>
              /\ CallsTo("create_index")' = <<>>
              /\ calls'[Len(calls')].op = "has_collection"
         /\ ~hasColl =>
              /\ Len(CallsTo("create")') = 1
              /\ CallsTo("create")'[1].arg = SchemaFields
              /\ Len(CallsTo("create_index")') <= 1
         /\ (\A i \in 1..Len(calls') : ~calls'[i].raised) => hasColl'
         /\ rows' = rows]_vars
\* create_collection called again, on a collection that holds documents.
C12_Witness ==
    /\ Created
    /\ CallsTo("has_collection")[1].value = TRUE
    /\ rows # <<>>
    /\ hasColl

\* ingest_documents reached insert_documents, which found the store
\* connected and got an answer to its existence check.
InsertEntered ==
    /\ Ingested
    /\ connected
    /\ ~CallRaised("embed")
    /\ CallReturned("has_collection")

\* C13 as claimed: insert fails when the collection does not exist and does
\* not create it.
C13_InsertNeedsCollection ==
    [][(InsertEntered' /\ ~hasColl) =>
         /\ ~success'
         /\ ~hasColl'
         /\ CallsTo("create")' = <<>>
         /\ rows' = rows]_vars
\* C13 as amended: when the collection does not exist insert_documents
\* creates it, once, and goes on to insert; the call fails only if one of
\* its Milvus calls raises, and on success the batch is in the new
\* collection.
C13_InsertCreatesCollection ==
    [][(InsertEntered' /\ ~hasColl) =>
         /\ Len(CallsTo("create")') = 1
         /\ ~success' => \E i \in 1..Len(calls') : calls'[i].raised
         /\ success' =>
              /\ hasColl'
              /\ CallReturned("create_index")'
              /\ rows' = rows \o MapSeq(documents', RowOf)]_vars
\* A batch was ingested into a store that had no collection.
C13_Witness ==
    /\ InsertEntered
    /\ success
    /\ CallReturned("create")
    /\ hasColl
    /\ Len(rows) = Len(batch)

\* ingest_documents got through its embedding loop and handed its list to
\* insert_documents.
HandedToInsert == Ingested /\ ~CallRaised("embed")

\* C14: every document handed to the store's insert carries an embedding,
\* the one the embedding provider returned for its content, whatever the
\* batch (also one with a document of empty content).
C14_InsertedCarryEmbedding ==
    HandedToInsert =>
        \A i \in 1..Len(documents) :
            /\ "embedding" \in DOMAIN documents[i]
            /\ \E c \in 1..Len(calls) :
                 /\ calls[c].op = "embed" /\ ~calls[c].raised
                 /\ calls[c].arg = Get(documents[i], "content", <<>>)
                 /\ calls[c].value = documents[i].embedding

\* The positions of the filtered hits that have a non-empty id.
IdPositions(docs) == {i \in 1..Len(docs) : "id" \in DOMAIN docs[i] /\ docs[i].id # ""}

\* C15: the sources of a successful answer are the ids of the filtered hits
\* in filtered order; a hit whose id is missing or empty is left out, and
\* nothing else is listed.
C15_SourcesAreFilteredIds ==
    Succeeded =>
        LET kept == locals.filtered_docs
            P == IdPositions(kept)
        IN  /\ Len(result.sources) = Cardinality(P)
            /\ \A k \in 1..Len(result.sources) : result.sources[k] = kept[NthOf(P, k)].id
\* Three filtered hits, the middle one without id: two sources.
C15_Witness ==
    /\ Succeeded
    /\ Len(locals.filtered_docs) = 3
    /\ locals.filtered_docs[2].id = ""
    /\ result.sources = <<locals.filtered_docs[1].id, locals.filtered_docs[3].id>>
    /\ locals.filtered_docs[1].id # ""

\* The contents of a sequence of hits, in order.
Contents(docs) == MapSeq(docs, LAMBDA doc: Get(doc, "content", <<>>))
\* The context the completion provider was called with.
GivenContext == CallsTo("complete")[1].arg
\* process_message reached its completion call.
Completing == Answered /\ CallsTo("complete") # <<>>

\* C16 as claimed: the context given to the completion provider is the
\* contents of the filtered hits, in filtered order, joined by "\n\n"; it is
\* empty exactly when no hit passed the filter.
C16_ContextJoinsFiltered ==
    Completing =>
        /\ GivenContext = Join(Contents(locals.filtered_docs), <<"\n\n">>)
        /\ GivenContext = <<>> <=> locals.filtered_docs = <<>>
\* C16 as amended: ... the non-empty contents of the filtered hits ...; it
\* is empty exactly when no filtered hit has a non-empty content.
C16_ContextJoinsNonEmpty ==
    Completing =>
        LET parts == SelectSeq(Contents(locals.filtered_docs), Truthy)
        IN  /\ GivenContext = Join(parts, <<"\n\n">>)
            /\ GivenContext = locals.context
            /\ GivenContext = <<>> <=> parts = <<>>
            /\ \A k \in 1..Len(parts) : GivenContext[2 * k - 1] = parts[k][1]
            /\ \A k \in 1..(Len(parts) - 1) : GivenContext[2 * k] = "\n\n"
\* Three filtered hits, the middle one without content: two parts joined.
C16_Witness ==
    /\ Completing
    /\ Len(locals.filtered_docs) = 3
    /\ locals.filtered_docs[2].content = <<>>
    /\ GivenContext = <<"X", "\n\n", "X">>

\* C17: every id in sources is the id of a filtered hit whose content is
\* in the context the completion provider was given; when sources is not
\* empty, that context is not empty.
C17_SourcesGrounded ==
    Succeeded =>
        /\ \A j \in 1..Len(result.sources) :
             \E i \in 1..Len(locals.filtered_docs) :
                 /\ locals.filtered_docs[i].id = result.sources[j]
                 /\ Occurs(locals.filtered_docs[i].content, GivenContext)
        /\ result.sources # <<>> => GivenContext # <<>>

\* Neither the embedding nor the completion provider failed in the last
\* process_message.
ProvidersReturned == Answered /\ ~CallRaised("embed") /\ ~CallRaised("complete")

\* C18: in a result for which no provider call failed, search_successful is
\* true exactly when a hit passed the threshold, reason is present exactly
\* when search_successful is false, and with no qualifying hit the reason
\* says that no document met the threshold and gives the threshold.
C18_SearchSuccessful ==
    ProvidersReturned =>
        LET md == result.search_metadata
        IN  /\ md.search_successful <=> locals.filtered_docs # <<>>
            /\ "reason" \in DOMAIN md <=> ~md.search_successful
            /\ locals.filtered_docs = <<>> =>
                 md.reason = <<"No documents met similarity threshold (",
                               FormatFloat(md.similarity_threshold), ")">>

\* C19: a completion call that succeeds never gives empty text: when the
\* provider yields no content get_chat_completion returns the placeholder
\* "No response generated", otherwise the provider's content, and that text
\* is the answer of process_message, which is therefore not empty.
C19_NeverEmptyAnswer ==
    Answered =>
        \A c \in 1..Len(calls) :
            (calls[c].op = "complete" /\ ~calls[c].raised) =>
                /\ calls[c].value # <<>>
                /\ calls[c].yielded = <<>> => calls[c].value = NO_RESPONSE
                /\ calls[c].yielded # <<>> => calls[c].value = calls[c].yielded
                /\ result.response = calls[c].value
\* The provider yielded no content and the answer is the placeholder.
C19_Witness ==
    /\ Succeeded
    /\ CallsTo("complete")[1].yielded = <<>>
    /\ result.response = <<"No response generated">>
    /\ locals.filtered_docs # <<>>

\* The positions in the call log of the calls to the given operations.
PositionsOf(ops) == {i \in 1..Len(calls) : calls[i].op \in ops}

\* C20: in one process_message the query is embedded, then the store is
\* searched, then the completion is requested, each at most once; the store
\* is not touched unless the embedding returned, and the completion is not
\* requested unless the embedding returned and search_similar returned.
C20_SequentialCalls ==
    Answered =>
        LET E == PositionsOf({"embed"})
            S == PositionsOf(StoreCalls)
            C == PositionsOf({"complete"})
        IN  /\ Cardinality(E) <= 1
            /\ Cardinality(C) <= 1
            /\ \A op \in StoreCalls : Cardinality(PositionsOf({op})) <= 1
            /\ E \cup S \cup C = 1..Len(calls)
            /\ \A e \in E, s \in S \cup C : e < s
            /\ \A s \in S, c \in C : s < c
            /\ (S \cup C # {}) => CallReturned("embed")
            /\ C # {} => \A s \in S : calls[s].op # "search" => ~calls[s].raised
            /\ CallReturned("search") => CallReturned("load")
\* All three calls were made and returned.
C20_Witness ==
    /\ Succeeded
    /\ MapSeq(calls, LAMBDA c: c.op)
         = <<"embed", "has_collection", "load", "search", "release", "complete">>
    /\ \A i \in 1..Len(calls) : ~calls[i].raised

\* A record without its conversation id.
Anonymous(res) == [k \in DOMAIN res \ {"conversation_id"} |-> res[k]]

\* C21: the conversation id is only echoed.  Two process_message calls
\* with the same message, store and behaviour of the external services but
\* different conversation ids make the same external calls and return the
\* same response, sources and search_metadata; each returns the id it was
\* given, on the success and on the soft-failure path.
C21_ConversationIdIsEcho ==
    Answered =>
        LET twin == req["s1"]
        IN  /\ twin.first # twin.second
            /\ result.conversation_id = twin.first
            /\ twin.result.conversation_id = twin.second
            /\ twin.calls = calls
            /\ twin.raised = raised
            /\ Anonymous(twin.result) = Anonymous(result)
            /\ DOMAIN twin.result = DOMAIN result
\* A grounded answer given under the ids None and "c1".
C21_Witness ==
    /\ Succeeded
    /\ result.sources # <<>>
    /\ result.conversation_id = "None"
    /\ req["s1"].result.conversation_id = "c1"
    /\ req["s1"].result.sources = result.sources

\* C22: for each document with non-empty content, the metadata handed to
\* the store is a string (the serialized form), whatever the caller
\* supplied: a non-empty dict, an empty dict, None or no metadata key.
C22_MetadataSerialized ==
    HandedToInsert =>
        \A i \in 1..Len(documents) :
            Truthy(Get(documents[i], "content", <<>>)) =>
                /\ "metadata" \in DOMAIN documents[i]
                /\ documents[i].metadata.kind = "str"

\* ingest_documents is called again with the list of the call before.
Retried ==
    /\ Ingested /\ Ingested'
    /\ batch \in MetaBatches
    /\ batch' = documents

\* C23: ingestion is repeatable on the same list: a call that failed left
\* the caller's documents as they were, and a second call with the same
\* list hands the store what a single successful call on the original list
\* hands it (each metadata serialized exactly once).
C23_IngestRepeatable ==
    [][Retried =>
        /\ ~success => documents = batch
        /\ HandedToInsert' =>
              documents' = embed_documents(batch, 1, NoFaults(<<>>)).value]_vars

\* C24: in every result of process_message, from the try and from the
\* except path: 0 <= len(sources) <= documents_found <=
\* total_documents_searched and similarity_threshold = 0.3; when
\* documents_found > 0 then 0.3 <= avg_score <= highest_score; when
\* documents_found = 0 then highest_score = avg_score = 0 and sources = [].
C24_ResultBounds ==
    Answered =>
        LET m == result.search_metadata
        IN  /\ Len(result.sources) <= m.documents_found
            /\ m.documents_found <= m.total_documents_searched
            /\ m.similarity_threshold = 300
            /\ m.documents_found > 0 =>
                  /\ m.avg_score.den > 0
                  /\ 300 * m.avg_score.den <= m.avg_score.num
                  /\ m.avg_score.num <= m.highest_score * m.avg_score.den
            /\ m.documents_found = 0 =>
                  /\ m.highest_score = 0
                  /\ m.avg_score = Zero
                  /\ result.sources = <<>>

\* An answer where the inequalities on the kept hits are strict: two hits
\* kept with different scores, one of the two without id.
C24_Witness ==
    /\ Succeeded
    /\ Len(result.sources) = 1
    /\ result.search_metadata.documents_found = 2
    /\ 300 * result.search_metadata.avg_score.den < result.search_metadata.avg_score.num
    /\ result.search_metadata.avg_score.num
         < result.search_metadata.highest_score * result.search_metadata.avg_score.den

\* The calls that reach the Milvus server.
MilvusOps ==
    {"has_connection", "has_collection", "create", "create_index", "load",
     "search", "insert", "flush", "release"}

\* C25: no operation changes the connected flag, and while it is False no
\* operation touches the store: search_similar returns [], create_collection
\* and insert_documents return without a call to the server and without
\* raising, and every answer reports total_documents_searched = 0.
C25_ConnectedDecidedOnce ==
    [][/\ connected' = connected
       /\ ~connected =>
            /\ \A i \in 1..Len(calls') : calls'[i].op \notin MilvusOps
            /\ hasColl' = hasColl
            /\ rows' = rows
            /\ ~raised'
            /\ Answered' =>
                  /\ locals'.similar_docs = <<>>
                  /\ result'.search_metadata.total_documents_searched = 0
            /\ Ingested' => success' = ~CallRaised("embed")']_vars

\* An answer given by a server that is not connected while the collection
\* holds documents.
C25_Witness ==
    /\ ~connected
    /\ rows # <<>>
    /\ Answered
    /\ CallReturned("complete")

\* The positions in the call log of the calls to op.
CallPositions(op) == {i \in 1..Len(calls) : calls[i].op = op}
\* The loads of the last operation that were performed (that returned).
Loads == {i \in CallPositions("load") : ~calls[i].raised}

\* C26: every load that search_similar or insert_documents performed is
\* followed by exactly one release, whether the search / insert in between
\* returned or raised; nothing is released that was not loaded; and an
\* operation that returned normally has released what it loaded.
C26_LoadReleased ==
    (Answered \/ Ingested) =>
        /\ \A i \in Loads :
              Cardinality({j \in CallPositions("release") : j > i}) = 1
        /\ \A j \in CallPositions("release") : \E i \in Loads : i < j
        /\ (Succeeded \/ (Ingested /\ success)) => ~CallRaised("release")

\* A search that raised after the load and was followed by the release.
C26_Witness ==
    /\ Answered
    /\ Loads # {}
    /\ CallRaised("search")
    /\ CallReturned("release")

====
